---- MODULE Spec2Model ----
(***************************************************************************)
(* Bulk recording archive route (app/api/freshcaller/recordings/zip):      *)
(* createLimiter, retry and the POST handler that streams recordings into  *)
(* a zip archive and appends a manifest.                                   *)
(*                                                                         *)
(* One action is one resumption of the JavaScript event loop: the code     *)
(* from the settlement of an awaited network call, timer or body read up   *)
(* to the next such await, together with the promise reactions it queues:  *)
(* when a task's async function returns, the then-handler of limit(..)     *)
(* (next(), resolve) runs in the same resumption.  The finalizer's         *)
(* continuation after Promise.allSettled is an action of its own.          *)
(***************************************************************************)
EXTENDS Integers, Sequences, FiniteSets, TLC

\* ---------------------------------------------------------------- bounds
MaxItems == 2        \* longest items array of a request
MaxConc == 2         \* largest ZIP_CONCURRENCY
MaxChunks == 2       \* most non-empty chunks a response body delivers
MaxChunkLen == 2     \* largest byteLength of one chunk
MaxTasks == 4        \* tasks handed to a limiter on its own
MaxTries == 3        \* largest tries argument of retry on its own
MaxConv == 6         \* most deduplicated conversation ids of a chat extraction

\* ------------------------------------------------------ program constants
DefaultTries == 3    \* retry's default for tries

VARIABLES
    body,        \* what req.json() yields: "badjson", "null", "absent", "notarray", "array"
    items,       \* the items array of the request (empty unless body = "array")
    max,         \* createLimiter's max (concurrency), when it is a number
    maxIsNaN,    \* Number(..) of the concurrency setting is NaN
    active,      \* createLimiter: let active
    queue,       \* createLimiter: const queue (ids of the tasks whose run waits)
    response,    \* HTTP status POST returned, 0 while none
    ctrl,        \* ReadableStream controller: "none", "open", "closed", "errored"
    zip,         \* the Zip writer: [u: entries in add order, ended: zip.end() called]
    manifest,    \* [entries, errors]
    pc,          \* per item: where its task is suspended
    rs,          \* per item: state of the retry call it is suspended in
    total,       \* per item: let total
    nread,       \* per item: chunks its reader has delivered
    thrown,      \* per item: what the latest invocation of a retried fn threw
                 \* ("undefined" when it fulfilled or none was made)
    finPc,       \* finalizer: "idle", "waiting", "done", "failed"
    serialized,  \* text handed to addTextFile("manifest.json", ..), as a manifest value
    task,        \* limiter on its own: state of each generic task
    startLog,    \* limiter on its own: tasks in the order run() was invoked
    queueLog,    \* limiter on its own: tasks in the order queue.push(run) was invoked
    rt,          \* retry on its own: state of the call
    tries,       \* retry on its own: the tries argument
    rlog,        \* retry on its own: outcome of every invocation of fn, in order
    nin,         \* naming on its own: the item, the audio response's content-type,
                 \* the download url and the byteLength of each chunk of the body
    nout,        \* naming on its own: [file, bytes, read] of the entry being written
    npc,         \* naming on its own: "idle", "fetched", "reading", "done", "failed"
    convIds,     \* chat extraction: the deduplicated conversation ids
    pointer,     \* chat extraction: index of the next id to take
    accMap,      \* chat extraction: per id "none", "row" (messages) or "error"
    worker,      \* chat extraction: per starter [pc, cid]; pc is "fetch", "json" or "returned"
    stage,       \* chat extraction: "idle", "fetching", "started", "done"
    fetches      \* chat extraction: per id, how many message fetches were issued

limVars == <<max, maxIsNaN, active, queue>>
reqVars == <<body, items>>
postVars == <<response, ctrl, zip, manifest, pc, rs, total, nread, thrown, finPc, serialized>>
taskVars == <<task, startLog, queueLog>>
retryVars == <<rt, tries, rlog>>
nameVars == <<nin, nout, npc>>
chatVars == <<convIds, pointer, accMap, worker, stage, fetches>>
vars == <<limVars, reqVars, postVars, taskVars, retryVars, nameVars, chatVars>>

\* ------------------------------------------------------------ createLimiter
\* `run`: active++ and fn() is invoked; ran lists the tasks whose fn was invoked
LimiterRun_NoCount(a, q, t) == [active |-> a, queue |-> q, ran |-> <<t>>]

LimiterRun(a, q, t) == [active |-> a + 1, queue |-> q, ran |-> <<t>>]

\* the function createLimiter returns, called for task t: run now or queue.push(run)
limit_OffByOne(a, q, t) ==
    IF ~maxIsNaN /\ a <= max THEN LimiterRun(a, q, t)
    ELSE [active |-> a, queue |-> Append(q, t), ran |-> <<>>]

limit_AtLeastOne(a, q, t) ==
    IF a = 0 \/ (~maxIsNaN /\ a < max) THEN LimiterRun(a, q, t)
    ELSE [active |-> a, queue |-> Append(q, t), ran |-> <<>>]

limit(a, q, t) ==
    IF ~maxIsNaN /\ a < max THEN LimiterRun(a, q, t)
    ELSE [active |-> a, queue |-> Append(q, t), ran |-> <<>>]

\* `next`: active--, queue.shift(), and the shifted run is invoked
next_Lifo(a, q) ==
    IF q # <<>> THEN LimiterRun(a - 1, SubSeq(q, 1, Len(q) - 1), q[Len(q)])
    ELSE [active |-> a - 1, queue |-> q, ran |-> <<>>]

next(a, q) ==
    IF q # <<>> THEN LimiterRun(a - 1, Tail(q), Head(q))
    ELSE [active |-> a - 1, queue |-> q, ran |-> <<>>]

\* the handlers limit(..) attaches with fn().then(..): both call next() before
\* they resolve or reject the promise limit(..) returned
OnFulfilled(a, q) == next(a, q)

OnRejected_NoNext(a, q) == [active |-> a, queue |-> q, ran |-> <<>>]

OnRejected(a, q) == next(a, q)

\* ------------------------------------------------------------------- retry
\* State of one retry(fn, tries) call.  i and lastErr are the code's locals;
\* phase is where the call is suspended ("calling": await fn(); "backoff": the
\* setTimeout promise) or how it settled; value is what it settled with;
\* calls counts the invocations of fn.
Undefined == "undefined"

RetryLoop_OneMore(r, n) ==
    IF r.i <= n THEN [r EXCEPT !.phase = "calling", !.calls = @ + 1]
    ELSE [r EXCEPT !.phase = "rejected", !.value = r.lastErr]

RetryLoop_OneLess(r, n) ==
    IF r.i < n - 1 THEN [r EXCEPT !.phase = "calling", !.calls = @ + 1]
    ELSE [r EXCEPT !.phase = "rejected", !.value = r.lastErr]

RetryLoop(r, n) ==
    IF r.i < n THEN [r EXCEPT !.phase = "calling", !.calls = @ + 1]
    ELSE [r EXCEPT !.phase = "rejected", !.value = r.lastErr]

retry(n) ==
    RetryLoop([i |-> 0, lastErr |-> Undefined, phase |-> "entry",
               value |-> Undefined, calls |-> 0], n)

\* return await fn(): fn fulfilled with v
RetryFulfil(r, v) == [r EXCEPT !.phase = "resolved", !.value = v]

\* catch (e): lastErr = e, then the backoff timer is awaited
RetryCatch_KeepFirst(r, e) ==
    [r EXCEPT !.lastErr = IF r.lastErr = Undefined THEN e ELSE r.lastErr,
              !.phase = "backoff"]

RetryCatch_NoLastWait(r, e) ==
    IF r.calls >= DefaultTries
    THEN [r EXCEPT !.lastErr = e, !.phase = "backoff", !.i = DefaultTries]
    ELSE [r EXCEPT !.lastErr = e, !.phase = "backoff"]

RetryCatch(r, e) == [r EXCEPT !.lastErr = e, !.phase = "backoff"]

\* the backoff timer fires: i++ and the loop test
RetryTimer(r, n) == RetryLoop([r EXCEPT !.i = @ + 1], n)

\* -------------------------------------------------------------- Zip writer
\* The fflate Zip the route drives: entries in add order, each with the bytes
\* pushed so far and whether its final chunk was pushed; ended once zip.end()
\* was called.  The writer emits its final output chunk when it has been ended
\* and every added entry is sealed; failed once it has reported an internal
\* error to its output callback.
NoZip == [made |-> FALSE, u |-> <<>>, ended |-> FALSE, failed |-> FALSE]

NewZip == [made |-> TRUE, u |-> <<>>, ended |-> FALSE, failed |-> FALSE]

ZipAdd(z, owner, name) ==
    [z EXCEPT !.u = Append(@, [owner |-> owner, file |-> name, bytes |-> 0,
                                final |-> FALSE, late |-> 0])]

\* late counts the chunks pushed to the entry after its final chunk
ZipPush(z, k, len, fin) ==
    [z EXCEPT !.u[k].bytes = @ + len, !.u[k].final = fin,
              !.u[k].late = IF z.u[k].final THEN @ + 1 ELSE @]

ZipEnd(z) == [z EXCEPT !.ended = TRUE]

ZipFail(z) == [z EXCEPT !.failed = TRUE]

ZipFinished(z) == z.ended /\ \A k \in 1..Len(z.u) : z.u[k].final

\* index in zip.u of the entry item i added, 0 when it added none
EntryOf(z, i) ==
    IF \E k \in 1..Len(z.u) : z.u[k].owner = i
    THEN CHOOSE k \in 1..Len(z.u) : z.u[k].owner = i
    ELSE 0

\* the stream's controller: error() and close() act on a readable stream
\* only; close() and enqueue() throw on any other
ControllerError(c) == IF c = "open" THEN "errored" ELSE c

ControllerClose(c) == IF c = "open" THEN "closed" ELSE c

ControllerThrows(c) == c # "open"

\* the callback given to new Zip(..): (err, chunk, final)
ZipOutput_NoClose(c, err, final) ==
    IF err THEN ControllerError(c)
    ELSE c

ZipOutput_ErrorDropped(c, err, final) ==
    IF err THEN c
    ELSE IF final THEN ControllerClose(c)
    ELSE c

ZipOutput(c, err, final) ==
    IF err THEN ControllerError(c)
    ELSE IF final THEN ControllerClose(c)
    ELSE c

\* controller state after a writer call that took the writer from z to z2
Emit(c, z, z2) ==
    IF ZipFinished(z2) /\ ~ZipFinished(z) THEN ZipOutput(c, FALSE, TRUE) ELSE c

\* ------------------------------------------------------------------- items
\* it.created_time as far as the task's control flow depends on it: "valid"
\* stands for an absent or parseable value (a date part is produced), "invalid"
\* for a non-empty value new Date(..).toISOString() throws on
CreatedTimes == {"valid", "invalid"}

ItemIds == 1..Len(items)

IdleRetry == [i |-> 0, lastErr |-> Undefined, phase |-> "idle",
              value |-> Undefined, calls |-> 0]

MetaErrors == {"metadata fetch 500", "fetch failed"}
AudioErrors == {"audio fetch 403"}
NoUrlError == "no download_url in metadata"
NoBodyError == "no readable body"
DateError == "Invalid time value"
ReadErrors == {"terminated"}
StateError == "Invalid state"

Range(s) == {s[k] : k \in 1..Len(s)}

\* !Array.isArray(items) || items.length === 0
\* the bodies POST throws on before a response exists: req.json() rejects,
\* or the parsed body is null and cannot be destructured
Throws_JsonOnly(b) == b = "badjson"

Throws(b) == b \in {"badjson", "null"}

NoItems_ArrayOnly(b, its) == b # "array"

NoItems(b, its) == b # "array" \/ Len(its) = 0

\* items.map((it) => limit(..)): every item is handed to the limiter in order
RECURSIVE SubmitFrom(_, _, _)
SubmitFrom(L, k, n) ==
    IF k > n THEN L
    ELSE LET r == limit(L.active, L.queue, k)
         IN  SubmitFrom([active |-> r.active, queue |-> r.queue,
                         ran |-> L.ran \o r.ran], k + 1, n)

\* pc and rs once the tasks in `ran` had their fn invoked: each runs up to the
\* first await, the metadata fetch inside retry
StartedPc(p, ran) == [j \in DOMAIN p |-> IF j \in Range(ran) THEN "meta" ELSE p[j]]
StartedRs(r, ran) ==
    [j \in DOMAIN r |-> IF j \in Range(ran) THEN retry(DefaultTries) ELSE r[j]]

\* manifest.errors.push in the task's catch; manifest.entries.push at its end
PushError_Lost(m, i, msg) == m

PushError_Clobber(m, i, msg) ==
    [m EXCEPT !.errors = <<[item |-> i, error |-> msg]>>]

PushError(m, i, msg) == [m EXCEPT !.errors = Append(@, [item |-> i, error |-> msg])]
PushEntry(m, i, name, n) ==
    [m EXCEPT !.entries = Append(@, [item |-> i, file |-> name, bytes |-> n])]

\* the entry name, as far as the route's control flow depends on it
FileName(i) == <<"call", i>>
ManifestName == <<"manifest.json", 0>>

\* no request under way
NoPost ==
    /\ response = 0
    /\ ctrl = "none"
    /\ zip = NoZip
    /\ manifest = [entries |-> <<>>, errors |-> <<>>]
    /\ pc = [i \in ItemIds |-> "new"]
    /\ rs = [i \in ItemIds |-> IdleRetry]
    /\ total = [i \in ItemIds |-> 0]
    /\ nread = [i \in ItemIds |-> 0]
    /\ thrown = [i \in ItemIds |-> Undefined]
    /\ finPc = "idle"
    /\ serialized = <<>>

NoTasks ==
    /\ task = <<>>
    /\ startLog = <<>>
    /\ queueLog = <<>>

NoRetry ==
    /\ rt = IdleRetry
    /\ tries = 0
    /\ rlog = <<>>

\* no entry is being named
NoNaming ==
    /\ nin = <<>>
    /\ nout = <<>>
    /\ npc = "idle"

\* no chat extraction under way
NoChat ==
    /\ convIds = <<>>
    /\ pointer = 0
    /\ accMap = <<>>
    /\ worker = <<>>
    /\ stage = "idle"
    /\ fetches = <<>>

\* a request has arrived and POST awaits req.json()
Arrived ==
    /\ body \in {"badjson", "null", "absent", "notarray", "array"}
    /\ items \in UNION {[1..n -> [created : CreatedTimes]] : n \in 0..MaxItems}
    /\ body # "array" => items = <<>>
    /\ active = 0
    /\ queue = <<>>
    /\ NoPost
    /\ NoTasks
    /\ NoRetry
    /\ NoNaming
    /\ NoChat

\* the concurrency setting is a positive integer (8 when it is not set)
Init ==
    /\ Arrived
    /\ max \in 1..MaxConc
    /\ maxIsNaN = FALSE

\* POST, resumed when req.json() settles: the 500 and 400 answers, or the
\* stream's start(): the writer, the manifest, every limit(..) call and the
\* finalizer up to its await
POST ==
    /\ response = 0
    /\ IF Throws(body)
       THEN /\ response' = 500
            /\ UNCHANGED <<limVars, ctrl, zip, manifest, pc, rs, total, nread,
                           thrown, finPc, serialized>>
       ELSE IF NoItems(body, items)
       THEN /\ response' = 400
            /\ UNCHANGED <<limVars, ctrl, zip, manifest, pc, rs, total, nread,
                           thrown, finPc, serialized>>
       ELSE LET L == SubmitFrom([active |-> active, queue |-> queue, ran |-> <<>>],
                                1, Len(items))
            IN  /\ response' = 200
                /\ ctrl' = "open"
                /\ zip' = NewZip
                /\ active' = L.active
                /\ queue' = L.queue
                /\ pc' = StartedPc([j \in ItemIds |-> "queued"], L.ran)
                /\ rs' = StartedRs(rs, L.ran)
                /\ finPc' = "waiting"
                /\ UNCHANGED <<max, maxIsNaN, manifest, total, nread, thrown, serialized>>
    /\ UNCHANGED <<reqVars, taskVars, retryVars, nameVars, chatVars>>

\* the task's async function returns (it never rejects): the then-handler of
\* limit(..) runs next(), which invokes the run at the head of the queue, and
\* resolves the task's promise
Returns(i) ==
    LET r == OnFulfilled(active, queue)
    IN  /\ active' = r.active
        /\ queue' = r.queue
        /\ pc' = StartedPc([pc EXCEPT ![i] = "settled"], r.ran)
        /\ rs' = StartedRs([rs EXCEPT ![i] = IdleRetry], r.ran)
        /\ total' = [total EXCEPT ![i] = 0]
        /\ nread' = [nread EXCEPT ![i] = 0]
        /\ UNCHANGED <<max, maxIsNaN>>

\* the task's catch: the error is recorded and the async function returns
Caught(i, msg) ==
    /\ manifest' = PushError(manifest, i, msg)
    /\ Returns(i)

\* the task stays suspended: the limiter and the task's locals are untouched
Suspended == UNCHANGED <<limVars, total, nread>>

\* the metadata fn fulfils: retry returns meta; without a download_url the task
\* throws, otherwise the audio retry starts and its fetch is awaited
MetaOk(i, hasUrl) ==
    /\ pc[i] = "meta" /\ rs[i].phase = "calling"
    /\ LET r == RetryFulfil(rs[i], IF hasUrl THEN "url" ELSE "nourl")
       IN  IF r.value = "nourl"
           THEN Caught(i, NoUrlError)
           ELSE /\ pc' = [pc EXCEPT ![i] = "audio"]
                /\ rs' = [rs EXCEPT ![i] = retry(DefaultTries)]
                /\ UNCHANGED manifest
                /\ Suspended
    /\ thrown' = [thrown EXCEPT ![i] = Undefined]
    /\ UNCHANGED <<reqVars, response, ctrl, zip, finPc, serialized, taskVars,
                   retryVars, nameVars, chatVars>>

\* the retried fn rejects with e (metadata or audio): retry's catch.  A fn is
\* one fallible operation to retry, which only awaits its promise: the fetch
\* and, for the metadata, r.json() settle it together
FnFails(i, e) ==
    /\ pc[i] \in {"meta", "audio"} /\ rs[i].phase = "calling"
    /\ e \in (IF pc[i] = "meta" THEN MetaErrors ELSE AudioErrors)
    /\ rs' = [rs EXCEPT ![i] = RetryCatch(rs[i], e)]
    /\ thrown' = [thrown EXCEPT ![i] = e]
    /\ UNCHANGED <<limVars, reqVars, response, ctrl, zip, manifest, pc, total,
                   nread, finPc, serialized, taskVars, retryVars, nameVars, chatVars>>

\* the backoff timer fires: the next attempt, or retry throws lastErr into the
\* task's catch
Backoff(i) ==
    /\ pc[i] \in {"meta", "audio"} /\ rs[i].phase = "backoff"
    /\ LET r == RetryTimer(rs[i], DefaultTries)
       IN  IF r.phase = "rejected"
           THEN Caught(i, r.value)
           ELSE /\ rs' = [rs EXCEPT ![i] = r]
                /\ UNCHANGED <<manifest, pc>>
                /\ Suspended
    /\ UNCHANGED <<reqVars, response, ctrl, zip, thrown, finPc, serialized,
                   taskVars, retryVars, nameVars, chatVars>>

\* the audio fn fulfils: retry returns the response; the entry is named, added
\* to the writer and the first read of the body is awaited.  An unparseable
\* created_time throws before the entry exists, a response without a body
\* after it was added.
AudioOk_UnknownDate(i, hasBody) ==
    /\ pc[i] = "audio" /\ rs[i].phase = "calling"
    /\ LET r == RetryFulfil(rs[i], IF hasBody THEN "body" ELSE "nobody")
           z == ZipAdd(zip, i, FileName(i))
       IN  IF r.value = "nobody"
           THEN Caught(i, NoBodyError) /\ zip' = z
           ELSE /\ zip' = z
                /\ pc' = [pc EXCEPT ![i] = "read"]
                /\ rs' = [rs EXCEPT ![i] = IdleRetry]
                /\ UNCHANGED manifest
                /\ Suspended
    /\ thrown' = [thrown EXCEPT ![i] = Undefined]
    /\ UNCHANGED <<reqVars, response, ctrl, finPc, serialized, taskVars,
                   retryVars, nameVars, chatVars>>

AudioOk(i, hasBody) ==
    /\ pc[i] = "audio" /\ rs[i].phase = "calling"
    /\ LET r == RetryFulfil(rs[i], IF hasBody THEN "body" ELSE "nobody")
           z == ZipAdd(zip, i, FileName(i))
       IN  IF items[i].created = "invalid"
           THEN Caught(i, DateError) /\ UNCHANGED zip
           ELSE IF r.value = "nobody"
           THEN Caught(i, NoBodyError) /\ zip' = z
           ELSE /\ zip' = z
                /\ pc' = [pc EXCEPT ![i] = "read"]
                /\ rs' = [rs EXCEPT ![i] = IdleRetry]
                /\ UNCHANGED manifest
                /\ Suspended
    /\ thrown' = [thrown EXCEPT ![i] = Undefined]
    /\ UNCHANGED <<reqVars, response, ctrl, finPc, serialized, taskVars,
                   retryVars, nameVars, chatVars>>

\* the byteLength of the chunks a reader delivers: the shortest and the longest
ChunkLens == {1, MaxChunkLen}

\* total += value.byteLength
AddBytes_Last(t, len) == len

AddBytes(t, len) == t + len

\* reader.read() yields a chunk of len bytes: total += len, entry.push(value)
ReadChunk_EntryAfterEntry(i, len) ==
    /\ pc[i] = "read"
    /\ \A k \in 1..(EntryOf(zip, i) - 1) : zip.u[k].final
    /\ nread[i] < MaxChunks
    /\ len \in ChunkLens
    /\ LET z == ZipPush(zip, EntryOf(zip, i), len, FALSE)
       IN  zip' = z /\ ctrl' = Emit(ctrl, zip, z)
    /\ total' = [total EXCEPT ![i] = AddBytes(@, len)]
    /\ nread' = [nread EXCEPT ![i] = @ + 1]
    /\ UNCHANGED <<limVars, reqVars, response, manifest, pc, rs, thrown, finPc,
                   serialized, taskVars, retryVars, nameVars, chatVars>>

ReadChunk(i, len) ==
    /\ pc[i] = "read"
    /\ nread[i] < MaxChunks
    /\ len \in ChunkLens
    /\ LET z == ZipPush(zip, EntryOf(zip, i), len, FALSE)
       IN  zip' = z /\ ctrl' = Emit(ctrl, zip, z)
    /\ total' = [total EXCEPT ![i] = AddBytes(@, len)]
    /\ nread' = [nread EXCEPT ![i] = @ + 1]
    /\ UNCHANGED <<limVars, reqVars, response, manifest, pc, rs, thrown, finPc,
                   serialized, taskVars, retryVars, nameVars, chatVars>>

\* reader.read() yields done: the final empty chunk seals the entry and the
\* item is recorded in manifest.entries
ReadDone_SealTwice(i) ==
    /\ pc[i] = "read"
    /\ LET k == EntryOf(zip, i)
           z == ZipPush(ZipPush(zip, k, 0, TRUE), k, 0, TRUE)
       IN  /\ zip' = z
           /\ ctrl' = Emit(ctrl, zip, z)
           /\ manifest' = PushEntry(manifest, i, zip.u[k].file, total[i])
    /\ Returns(i)
    /\ UNCHANGED <<reqVars, response, thrown, finPc, serialized, taskVars,
                   retryVars, nameVars, chatVars>>

ReadDone(i) ==
    /\ pc[i] = "read"
    /\ LET k == EntryOf(zip, i)
           z == ZipPush(zip, k, 0, TRUE)
       IN  /\ zip' = z
           /\ ctrl' = Emit(ctrl, zip, z)
           /\ manifest' = PushEntry(manifest, i, zip.u[k].file, total[i])
    /\ Returns(i)
    /\ UNCHANGED <<reqVars, response, thrown, finPc, serialized, taskVars,
                   retryVars, nameVars, chatVars>>

\* reader.read() rejects: the task's catch; the entry stays as it is
ReadError_RetryWhole(i, e) ==
    /\ pc[i] = "read"
    /\ e \in ReadErrors
    /\ pc' = [pc EXCEPT ![i] = "meta"]
    /\ rs' = [rs EXCEPT ![i] = retry(DefaultTries)]
    /\ UNCHANGED <<limVars, reqVars, response, ctrl, zip, manifest, total,
                   nread, thrown, finPc, serialized, taskVars, retryVars, nameVars, chatVars>>

ReadError_Seal(i, e) ==
    /\ pc[i] = "read"
    /\ e \in ReadErrors
    /\ Caught(i, e)
    /\ LET z == ZipPush(zip, EntryOf(zip, i), 0, TRUE)
       IN  zip' = z /\ ctrl' = Emit(ctrl, zip, z)
    /\ UNCHANGED <<reqVars, response, thrown, finPc, serialized, taskVars,
                   retryVars, nameVars, chatVars>>

ReadError(i, e) ==
    /\ pc[i] = "read"
    /\ e \in ReadErrors
    /\ Caught(i, e)
    /\ UNCHANGED <<reqVars, response, ctrl, zip, thrown, finPc, serialized,
                   taskVars, retryVars, nameVars, chatVars>>

\* await Promise.allSettled(tasks): every promise limit(..) returned has settled
AllSettled_Any == \E i \in ItemIds : pc[i] = "settled"

AllSettled == \A i \in ItemIds : pc[i] = "settled"

\* the finalizer after Promise.allSettled(tasks):
\* addTextFile("manifest.json", JSON.stringify(manifest)) and zip.end()
Finalizer ==
    /\ finPc = "waiting"
    /\ AllSettled
    /\ LET z1 == ZipAdd(zip, 0, ManifestName)
           z2 == ZipPush(z1, Len(z1.u), 1, TRUE)
           z3 == ZipEnd(z2)
       IN  /\ zip' = z3
           /\ ctrl' = Emit(Emit(ctrl, zip, z2), z2, z3)
    /\ serialized' = <<manifest>>
    /\ finPc' = "done"
    /\ UNCHANGED <<limVars, reqVars, response, manifest, pc, rs, total, nread,
                   thrown, taskVars, retryVars, nameVars, chatVars>>

Next ==
    \/ POST
    \/ \E i \in ItemIds, b \in BOOLEAN : MetaOk(i, b)
    \/ \E i \in ItemIds, e \in MetaErrors \cup AudioErrors : FnFails(i, e)
    \/ \E i \in ItemIds : Backoff(i)
    \/ \E i \in ItemIds, b \in BOOLEAN : AudioOk(i, b)
    \/ \E i \in ItemIds, len \in ChunkLens : ReadChunk(i, len)
    \/ \E i \in ItemIds : ReadDone(i)
    \/ \E i \in ItemIds, e \in ReadErrors : ReadError(i, e)
    \/ Finalizer

Spec == Init /\ [][Next]_vars

\* every awaited network call, timer and read settles, and every queued
\* continuation is run
FairSpec == Spec /\ WF_vars(Next)

\* ------------------------------------------------- the limiter on its own
\* createLimiter(max) handed MaxTasks tasks at arbitrary moments, each of which
\* fulfils or rejects at an arbitrary later moment.  Tasks are numbered in the
\* order they are handed over.
TaskIds == 1..MaxTasks

InitLimiter ==
    /\ body = "absent"
    /\ items = <<>>
    /\ max \in 1..MaxConc
    /\ maxIsNaN = FALSE
    /\ active = 0
    /\ queue = <<>>
    /\ NoPost
    /\ task = [t \in TaskIds |-> "new"]
    /\ startLog = <<>>
    /\ queueLog = <<>>
    /\ NoRetry
    /\ NoNaming
    /\ NoChat

RunTasks(tk, ran) == [t \in TaskIds |-> IF t \in Range(ran) THEN "running" ELSE tk[t]]

\* limit(fn) is called for the next task
Submit(t) ==
    /\ task[t] = "new"
    /\ \A s \in TaskIds : s < t => task[s] # "new"
    /\ LET r == limit(active, queue, t)
       IN  /\ active' = r.active
           /\ queue' = r.queue
           /\ task' = RunTasks([task EXCEPT ![t] = "queued"], r.ran)
           /\ startLog' = startLog \o r.ran
           /\ queueLog' = IF r.ran = <<>> THEN Append(queueLog, t) ELSE queueLog
    /\ UNCHANGED <<max, maxIsNaN, reqVars, postVars, retryVars, nameVars, chatVars>>

\* the promise of a running task settles and its then-handler runs
Settle(t, ok) ==
    /\ task[t] = "running"
    /\ LET r == IF ok THEN OnFulfilled(active, queue) ELSE OnRejected(active, queue)
       IN  /\ active' = r.active
           /\ queue' = r.queue
           /\ task' = RunTasks([task EXCEPT ![t] = IF ok THEN "fulfilled" ELSE "rejected"],
                               r.ran)
           /\ startLog' = startLog \o r.ran
    /\ UNCHANGED <<max, maxIsNaN, queueLog, reqVars, postVars, retryVars, nameVars, chatVars>>

NextLimiter ==
    \/ \E t \in TaskIds : Submit(t)
    \/ \E t \in TaskIds, ok \in BOOLEAN : Settle(t, ok)

LimiterSpec == InitLimiter /\ [][NextLimiter]_vars

\* --------------------------------------------------------- retry on its own
\* one call retry(fn, tries) whose fn fulfils or rejects arbitrarily
FnValues == {"v1", "v2"}
FnErrors == {"e1", "e2", "e3"}

InitRetry ==
    /\ body = "absent"
    /\ items = <<>>
    /\ max = 1
    /\ maxIsNaN = FALSE
    /\ active = 0
    /\ queue = <<>>
    /\ NoPost
    /\ NoTasks
    /\ tries \in 0..MaxTries
    /\ rt = retry(tries)
    /\ rlog = <<>>
    /\ NoNaming
    /\ NoChat

FnFulfils(v) ==
    /\ rt.phase = "calling"
    /\ rt' = RetryFulfil(rt, v)
    /\ rlog' = Append(rlog, [ok |-> TRUE, val |-> v])
    /\ UNCHANGED <<tries, limVars, reqVars, postVars, taskVars, nameVars, chatVars>>

FnRejects(e) ==
    /\ rt.phase = "calling"
    /\ rt' = RetryCatch(rt, e)
    /\ rlog' = Append(rlog, [ok |-> FALSE, val |-> e])
    /\ UNCHANGED <<tries, limVars, reqVars, postVars, taskVars, nameVars, chatVars>>

TimerFires ==
    /\ rt.phase = "backoff"
    /\ rt' = RetryTimer(rt, tries)
    /\ UNCHANGED <<tries, rlog, limVars, reqVars, postVars, taskVars, nameVars, chatVars>>

NextRetry ==
    \/ \E v \in FnValues : FnFulfils(v)
    \/ \E e \in FnErrors : FnRejects(e)
    \/ TimerFires

RetrySpec == InitRetry /\ [][NextRetry]_vars

\* ------------------------------------------------------------ item states
InEntries(m, i) == \E k \in 1..Len(m.entries) : m.entries[k].item = i
InErrors(m, i) == \E k \in 1..Len(m.errors) : m.errors[k].item = i

\* the state of item i in the orchestrator's per-item state machine
ItemState(i) ==
    CASE pc[i] \in {"new", "queued"} -> "PENDING"
      [] pc[i] = "meta" -> "RESOLVING"
      [] pc[i] = "audio" -> "FETCHING"
      [] pc[i] = "read" -> "STREAMING"
      [] pc[i] = "settled" /\ InEntries(manifest, i) -> "COMPLETED"
      [] OTHER -> "FAILED"

Admitted == {i \in ItemIds : ItemState(i) \in {"RESOLVING", "FETCHING", "STREAMING"}}

ManifestAdded == \E k \in 1..Len(zip.u) : zip.u[k].owner = 0

\* ----------------------------------------------------------------- claims

\* C1: the number of item tasks the limiter has started and that have not yet
\* settled (items in RESOLVING, FETCHING or STREAMING) never exceeds the
\* configured maximum.
C1_ConcurrencyBound == Cardinality(Admitted) <= max

\* every slot is taken while an item still waits in the queue
C1_Witness == Cardinality(Admitted) = max /\ queue # <<>>

\* C2: the manifest entry is added, the manifest serialized and zip.end()
\* invoked only when every item of the request is COMPLETED or FAILED.
C2_FinalizeAfterAllTerminal ==
    (ManifestAdded \/ zip.ended \/ serialized # <<>>) =>
        \A i \in ItemIds : ItemState(i) \in {"COMPLETED", "FAILED"}

\* the writer was closed for a request of two items, one of each outcome
C2_Witness ==
    /\ zip.ended /\ ManifestAdded
    /\ \E i, j \in ItemIds : ItemState(i) = "COMPLETED" /\ ItemState(j) = "FAILED"

\* C3: in the serialized manifest every input item has exactly one record, in
\* exactly one of entries and errors, so the two lengths add up to items.length.
C3_ManifestAccounting ==
    serialized # <<>> =>
        LET m == serialized[1]
        IN  /\ Len(m.entries) + Len(m.errors) = Len(items)
            /\ \A i \in ItemIds :
                   Cardinality({k \in 1..Len(m.entries) : m.entries[k].item = i})
                 + Cardinality({k \in 1..Len(m.errors) : m.errors[k].item = i}) = 1

\* a manifest with a success and a failure was serialized
C3_Witness ==
    /\ serialized # <<>>
    /\ Len(serialized[1].entries) >= 1
    /\ Len(serialized[1].errors) >= 1

\* C4: once every item has settled and the finalizer has run (with max >= 1
\* and every network operation answered), the output stream has completed
\* normally - also when an item failed after its entry was added.
C4_StreamCompletes == finPc = "done" => ctrl = "closed"

\* C5: when the resolution of every item fails, the writer never holds a
\* recording entry; the finalized archive holds the manifest entry alone, the
\* serialized manifest lists every item under errors and none under entries,
\* and the writer is closed and the stream completed.
ResolutionFailed(i) ==
    \E k \in 1..Len(manifest.errors) :
        /\ manifest.errors[k].item = i
        /\ manifest.errors[k].error \in MetaErrors \cup {NoUrlError}

C5_AllResolutionsFail ==
    /\ \A i \in ItemIds :
           (ItemState(i) \in {"PENDING", "RESOLVING"} \/ ResolutionFailed(i))
               => EntryOf(zip, i) = 0
    /\ (finPc = "done" /\ \A i \in ItemIds : ResolutionFailed(i)) =>
           /\ zip.u = <<[owner |-> 0, file |-> ManifestName, bytes |-> 1, final |-> TRUE,
                         late |-> 0]>>
           /\ Len(serialized[1].errors) = Len(items)
           /\ serialized[1].entries = <<>>
           /\ zip.ended
           /\ ctrl = "closed"

\* two items, both failed in resolution, and the archive was finalized
C5_Witness ==
    /\ Len(items) >= 2
    /\ finPc = "done"
    /\ \A i \in ItemIds : ResolutionFailed(i)

\* C6: a request whose items value is absent, not an array or an empty array is
\* answered 400, and nothing else has happened: no task queued or started, no
\* writer, no stream, no manifest.
C6_NoItemsIs400 ==
    (response # 0 /\ (body \in {"absent", "notarray"} \/ (body = "array" /\ Len(items) = 0))) =>
        /\ response = 400
        /\ ctrl = "none"
        /\ ~zip.made
        /\ active = 0 /\ queue = <<>>
        /\ finPc = "idle"
        /\ manifest = [entries |-> <<>>, errors |-> <<>>]
        /\ serialized = <<>>
        /\ \A i \in ItemIds : pc[i] = "new"

\* an empty items array was answered
C6_Witness == response = 400 /\ body = "array" /\ Len(items) = 0

\* C7: tasks that had to queue are started in the order they were queued, and
\* while a task waits no task handed over after it has been started.
C7_Fifo ==
    /\ LET fromQueue == SelectSeq(startLog, LAMBDA t : t \in Range(queueLog))
       IN  fromQueue = SubSeq(queueLog, 1, Len(fromQueue))
    /\ \A t \in Range(queue) : \A s \in Range(startLog) : s < t

\* two tasks queued behind a busy limiter and both were started since
C7_Witness ==
    /\ Len(queueLog) >= 2
    /\ queueLog[1] \in Range(startLog)
    /\ queueLog[2] \in Range(startLog)

\* C8: when a running task rejects, active is decremented once and the head of
\* the queue, if any, is started at once (so active stays as it was); while a
\* task waits some task is running, whose settlement will call next().
C8_RejectReleasesSlot ==
    /\ [](queue # <<>> => \E t \in TaskIds : task[t] = "running")
    /\ [][\A t \in TaskIds :
            (task[t] = "running" /\ task'[t] = "rejected") =>
                IF queue = <<>>
                THEN active' = active - 1 /\ queue' = queue /\ startLog' = startLog
                ELSE /\ active' = active
                     /\ queue' = Tail(queue)
                     /\ task'[Head(queue)] = "running"
                     /\ startLog' = Append(startLog, Head(queue))]_vars

\* the only slot was freed by a rejection and the task queued behind it runs
C8_Witness == max = 1 /\ task[1] = "rejected" /\ task[2] = "running" /\ 2 \in Range(queueLog)

\* C9: retry invokes fn at most tries times and never after an invocation
\* fulfilled; after k < tries rejections and a fulfilment fn was invoked k+1
\* times and retry resolves with the fulfilment's value.
C9_RetryAttemptBound ==
    /\ rt.calls <= tries
    /\ Len(rlog) <= rt.calls
    /\ \A k \in 1..(Len(rlog) - 1) : ~rlog[k].ok
    /\ (Len(rlog) > 0 /\ rlog[Len(rlog)].ok) =>
           /\ rt.phase = "resolved"
           /\ rt.value = rlog[Len(rlog)].val
           /\ rt.calls = Len(rlog)
    /\ rt.phase = "resolved" => (Len(rlog) > 0 /\ rlog[Len(rlog)].ok)

\* two rejections, then the third and last allowed invocation fulfilled
C9_Witness ==
    /\ tries = 3 /\ Len(rlog) = 3
    /\ ~rlog[1].ok /\ ~rlog[2].ok /\ rlog[3].ok
    /\ rt.phase = "resolved"

\* C10: while retry waits after a failed attempt it holds that attempt's error,
\* and an item whose resolution attempts all failed is recorded in
\* manifest.errors, and not in manifest.entries, with the message of the last
\* attempt's error.
C10_LastErrorRecorded ==
    /\ \A i \in ItemIds :
           (pc[i] \in {"meta", "audio"} /\ rs[i].phase = "backoff") => rs[i].lastErr = thrown[i]
    /\ \A k \in 1..Len(manifest.errors) :
           manifest.errors[k].error \in MetaErrors =>
               /\ manifest.errors[k].error = thrown[manifest.errors[k].item]
               /\ ItemState(manifest.errors[k].item) = "FAILED"

\* an item is FAILED with a metadata error after its attempts were used up
C10_Witness ==
    \E k \in 1..Len(manifest.errors) :
        /\ manifest.errors[k].error \in MetaErrors
        /\ pc[manifest.errors[k].item] = "settled"

\* ------------------------------------------ a resolution that recovers
\* The route with the network fixed for item 1: its metadata fetch fails on the
\* first and on the second attempt and succeeds, with a download_url, on the
\* third; its audio fetch succeeds with a body and no read of it fails.  Its
\* created_time is usable.  Every other item meets an arbitrary network.
InitRecovery ==
    /\ Init
    /\ body = "array"
    /\ Len(items) >= 1
    /\ items[1].created = "valid"

NextRecovery ==
    \/ POST
    \/ \E i \in ItemIds, b \in BOOLEAN :
           (i = 1 => (b /\ rs[1].calls = DefaultTries)) /\ MetaOk(i, b)
    \/ \E i \in ItemIds, e \in MetaErrors \cup AudioErrors :
           (i = 1 => (pc[1] = "meta" /\ rs[1].calls < DefaultTries)) /\ FnFails(i, e)
    \/ \E i \in ItemIds : Backoff(i)
    \/ \E i \in ItemIds, b \in BOOLEAN : (i = 1 => b) /\ AudioOk(i, b)
    \/ \E i \in ItemIds, len \in ChunkLens : ReadChunk(i, len)
    \/ \E i \in ItemIds : ReadDone(i)
    \/ \E i \in ItemIds, e \in ReadErrors : i # 1 /\ ReadError(i, e)
    \/ Finalizer

RecoverySpec == InitRecovery /\ [][NextRecovery]_vars

\* C11: an item whose resolution fails on the first and second attempt and
\* succeeds on the third, and whose audio fetch and streaming succeed, ends
\* COMPLETED with a record in manifest.entries and none in manifest.errors,
\* also in the serialized manifest.
C11_RetryRecovery ==
    /\ pc[1] = "settled" =>
           /\ ItemState(1) = "COMPLETED"
           /\ InEntries(manifest, 1) /\ ~InErrors(manifest, 1)
    /\ serialized # <<>> =>
           InEntries(serialized[1], 1) /\ ~InErrors(serialized[1], 1)

\* item 1 went through its two failures and the archive was finalized
C11_Witness ==
    /\ finPc = "done"
    /\ InEntries(serialized[1], 1)

\* C12: an item is recorded as failed for a missing download_url only by a
\* step taken after DefaultTries attempts of the resolution were made, i.e. a
\* metadata answer without a download_url is retried like a failed fetch.
C12_MissingUrlRetried ==
    [][\A i \in ItemIds :
          ( /\ pc[i] = "meta" /\ pc'[i] = "settled"
            /\ manifest'.errors = Append(manifest.errors, [item |-> i, error |-> NoUrlError]) )
          => rs[i].calls = DefaultTries]_vars

\* C13: the manifest entry is added at most once, it is the writer's last
\* entry and sealed, zip.end() comes with it, and once the finalizer has run
\* the writer is never touched again; a streamed request that has not reached
\* that point always has a step left to take.
C13_FinalizedOnce ==
    /\ [](Cardinality({k \in 1..Len(zip.u) : zip.u[k].owner = 0}) <= 1)
    /\ [](ManifestAdded =>
              /\ zip.u[Len(zip.u)].owner = 0
              /\ zip.u[Len(zip.u)].final
              /\ zip.ended /\ finPc = "done" /\ serialized # <<>>)
    /\ []((zip.ended \/ finPc = "done") => ManifestAdded)
    /\ [][finPc = "done" => (zip' = zip /\ serialized' = serialized /\ finPc' = finPc)]_vars
    /\ []((response = 200 /\ finPc # "done") => ENABLED Next)

\* the archive was finalized behind at least one recording entry
C13_Witness == finPc = "done" /\ zip.ended /\ Len(zip.u) >= 2

\* C14: whenever zip.end() has been invoked, every entry added to the writer
\* (each recording entry and the manifest entry) has received its final chunk.
C14_NoOpenEntryAtClose ==
    zip.ended => \A k \in 1..Len(zip.u) : zip.u[k].final

\* the step fails item i: its task settles without a manifest.entries record
Fails(i) == pc[i] # "settled" /\ pc'[i] = "settled" /\ ~InEntries(manifest', i)

\* C16: a step that fails an item appends one manifest.errors record, for that
\* item, and nothing else of the manifest changes; the task settles by
\* fulfilling (the limiter's slot is handed on), the stream is never errored,
\* and no other item's stage, retry state, counters or writer entry changes,
\* except that the queued item at the head of the limiter's queue is started.
C16_FailureIsolated ==
    /\ [](ctrl # "errored")
    /\ [][\A i \in ItemIds : Fails(i) =>
            /\ \E e \in MetaErrors \cup AudioErrors \cup ReadErrors
                        \cup {NoUrlError, NoBodyError, DateError} :
                   manifest'.errors = Append(manifest.errors, [item |-> i, error |-> e])
            /\ manifest'.entries = manifest.entries
            /\ ctrl' = ctrl
            /\ serialized' = serialized /\ finPc' = finPc
            /\ \A k \in 1..Len(zip.u) : zip'.u[k] = zip.u[k]
            /\ \A k \in 1..Len(zip'.u) : k > Len(zip.u) => zip'.u[k].owner = i
            /\ \A j \in ItemIds \ {i} :
                   /\ total'[j] = total[j] /\ nread'[j] = nread[j]
                   /\ thrown'[j] = thrown[j]
                   /\ \/ pc'[j] = pc[j] /\ rs'[j] = rs[j]
                      \/ /\ pc[j] = "queued" /\ pc'[j] = "meta"
                         /\ queue # <<>> /\ queue[1] = j /\ queue' = Tail(queue)
                         /\ active' = active]_vars

\* two items failed, at different stages, and both records are kept
C16_Witness ==
    /\ Len(manifest.errors) = 2
    /\ manifest.errors[1].item # manifest.errors[2].item
    /\ manifest.errors[1].error \in MetaErrors
    /\ manifest.errors[2].error \in ReadErrors

\* C17: for every manifest.entries record the writer holds a sealed entry of
\* that item with the recorded file name, and the recorded byte count is the
\* sum of the lengths of the chunks pushed to that entry.
C17_ByteCountAgrees ==
    \A n \in 1..Len(manifest.entries) :
        LET rec == manifest.entries[n]
            k == EntryOf(zip, rec.item)
        IN  /\ k # 0
            /\ zip.u[k].final
            /\ zip.u[k].file = rec.file
            /\ zip.u[k].bytes = rec.bytes

\* an item completed whose body came in more than one chunk
C17_Witness ==
    \E n \in 1..Len(manifest.entries) :
        /\ manifest.entries[n].bytes > MaxChunkLen
        /\ pc[manifest.entries[n].item] = "settled"

\* the per-item transitions of the state machine
Forward ==
    {<<"PENDING", "RESOLVING">>,
     <<"RESOLVING", "FETCHING">>, <<"RESOLVING", "FAILED">>,
     <<"FETCHING", "STREAMING">>, <<"FETCHING", "FAILED">>,
     <<"STREAMING", "COMPLETED">>, <<"STREAMING", "FAILED">>}

\* C20: in every step each item keeps its state or takes one of the forward
\* transitions: PENDING to RESOLVING, RESOLVING to FETCHING, FETCHING to
\* STREAMING, STREAMING to COMPLETED, and RESOLVING, FETCHING or STREAMING to
\* FAILED; nothing leaves COMPLETED or FAILED.
C20_ForwardOnly ==
    [][\A i \in ItemIds :
          \/ ItemState(i)' = ItemState(i)
          \/ <<ItemState(i), ItemState(i)'>> \in Forward]_vars

\* one item completed and another failed while streaming, its entry left open
C20_Witness ==
    \E i, j \in ItemIds :
        /\ ItemState(i) = "COMPLETED"
        /\ ItemState(j) = "FAILED"
        /\ EntryOf(zip, j) # 0 /\ ~zip.u[EntryOf(zip, j)].final

\* --------------------------------------------------------- writer faults
\* The route with a writer that can fail: it reports an internal error to its
\* output callback, and a call into it can throw.

\* the writer invokes its output callback with an error
WriterFault ==
    /\ zip.made /\ ~zip.failed /\ ~ZipFinished(zip)
    /\ zip' = ZipFail(zip)
    /\ ctrl' = ZipOutput(ctrl, TRUE, FALSE)
    /\ UNCHANGED <<limVars, reqVars, response, manifest, pc, rs, total, nread,
                   thrown, finPc, serialized, taskVars, retryVars, nameVars, chatVars>>

\* entry.push(..) in the read loop throws, as controller.enqueue does in the
\* output callback once the stream is not readable: the task's catch
PushThrows(i) ==
    /\ pc[i] = "read"
    /\ ControllerThrows(ctrl)
    /\ Caught(i, StateError)
    /\ UNCHANGED <<reqVars, response, ctrl, zip, thrown, finPc, serialized,
                   taskVars, retryVars, nameVars, chatVars>>

\* addTextFile or zip.end() throws in the finalizer: its catch calls
\* controller.error(e)
FinalizerThrows ==
    /\ finPc = "waiting"
    /\ AllSettled
    /\ zip' = ZipAdd(zip, 0, ManifestName)
    /\ serialized' = <<manifest>>
    /\ ctrl' = ControllerError(ctrl)
    /\ finPc' = "failed"
    /\ UNCHANGED <<limVars, reqVars, response, manifest, pc, rs, total, nread,
                   thrown, taskVars, retryVars, nameVars, chatVars>>

NextFault ==
    \/ Next
    \/ WriterFault
    \/ \E i \in ItemIds : PushThrows(i)
    \/ FinalizerThrows

\* the tasks run one at a time (ZIP_CONCURRENCY = 1); the fault can come at
\* any point of any task and of the finalizer
InitFault == Init /\ max = 1

FaultSpec == InitFault /\ [][NextFault]_vars

\* C15: once the writer has reported an error to its output callback the
\* stream is errored, and an errored stream stays errored (it is never closed),
\* whatever the tasks and the finalizer do afterwards.
C15_WriterErrorAborts ==
    /\ [](zip.failed => ctrl = "errored")
    /\ [][ctrl = "errored" => ctrl' = "errored"]_vars

\* after the writer's error the tasks settled and the finalizer ran to its
\* end: zip.end() was called with every entry sealed, and the stream is errored
C15_Witness == zip.failed /\ finPc = "done" /\ ZipFinished(zip) /\ Len(zip.u) >= 2

\* C19: a body POST throws on is answered 500 with no stream, writer,
\* manifest or task created; a finalizer that threw leaves the stream of its
\* 200 response errored, not closed.
C19_FailureBoundary ==
    /\ (body \in {"badjson", "null"} /\ response # 0) =>
           /\ response = 500
           /\ ctrl = "none" /\ zip = NoZip /\ finPc = "idle"
           /\ active = 0 /\ queue = <<>>
           /\ \A i \in ItemIds : pc[i] = "new" /\ rs[i] = IdleRetry
    /\ response = 500 => ctrl = "none" /\ zip = NoZip
    /\ finPc = "failed" => response = 200 /\ ctrl = "errored"

\* the finalizer threw while the stream was readable and the writer had
\* reported nothing
C19_Witness == finPc = "failed" /\ ~zip.failed /\ ctrl = "errored" /\ Len(zip.u) >= 2

\* ------------------------------------------------------ naming on its own
\* Strings are sequences of one-character strings; null and "" are both <<>>
\* (the code tests them for truthiness only).
Digits == <<"0", "1", "2", "3", "4", "5", "6", "7", "8", "9">>

Upper ==
    <<"A", "B", "C", "D", "E", "F", "G", "H", "I", "J", "K", "L", "M", "N", "O", "P", "Q",
            "R", "S", "T", "U", "V", "W", "X", "Y", "Z">>

Lower ==
    <<"a", "b", "c", "d", "e", "f", "g", "h", "i", "j", "k", "l", "m", "n", "o", "p", "q",
            "r", "s", "t", "u", "v", "w", "x", "y", "z">>

\* \w of a regular expression
WordChars == Range(Upper) \cup Range(Lower) \cup Range(Digits) \cup {"_"}

\* the characters /[^\w.+-]+/ leaves alone
SlugChars_NoPlus == WordChars \cup {".", "-"}

SlugChars == WordChars \cup {".", "+", "-"}

\* the characters /[^+\d]/ leaves alone
PhoneChars == Range(Digits) \cup {"+"}

WhiteSpace == {" ", "\t"}

\* .slice(0, 120)
SlugMax == 120

\* .slice(0, 10) of an ISO date-time: the date
DateLen == 10

slice(str, n) == SubSeq(str, 1, IF Len(str) < n THEN Len(str) ELSE n)

\* str without its longest prefix, or suffix, of characters of cs
RECURSIVE DropLeft(_, _)
DropLeft(str, cs) ==
    IF str # <<>> /\ Head(str) \in cs THEN DropLeft(Tail(str), cs) ELSE str

RECURSIVE DropRight(_, _)
DropRight(str, cs) ==
    IF str # <<>> /\ str[Len(str)] \in cs
    THEN DropRight(SubSeq(str, 1, Len(str) - 1), cs)
    ELSE str

trim(str) == DropRight(DropLeft(str, WhiteSpace), WhiteSpace)

\* .replace(/[^..]+/g, "_"): every maximal run of characters outside keep
\* becomes one "_"
RECURSIVE ReplaceRuns(_, _)
ReplaceRuns(str, keep) ==
    IF str = <<>> THEN <<>>
    ELSE IF Head(str) \in keep THEN <<Head(str)>> \o ReplaceRuns(Tail(str), keep)
    ELSE LET rest == Tail(str)
             k == IF \E j \in 1..Len(rest) : rest[j] \in keep
                  THEN CHOOSE j \in 1..Len(rest) :
                           rest[j] \in keep /\ \A h \in 1..(j - 1) : rest[h] \notin keep
                  ELSE Len(rest) + 1
         IN  <<"_">> \o ReplaceRuns(SubSeq(rest, k, Len(rest)), keep)

\* .replace(/[^..]/g, ""): the characters outside keep are removed
RemoveOutside(str, keep) == SelectSeq(str, LAMBDA c : c \in keep)

safeSlug(str) ==
    slice(DropRight(DropLeft(ReplaceRuns(trim(str), SlugChars), {"_"}), {"_"}), SlugMax)

toLowerCase(str) ==
    [k \in 1..Len(str) |->
        IF \E n \in 1..Len(Upper) : Upper[n] = str[k]
        THEN Lower[CHOOSE n \in 1..Len(Upper) : Upper[n] = str[k]]
        ELSE str[k]]

\* the positions at which sub occurs in str
Occurrences(str, sub) ==
    {k \in 1..(Len(str) - Len(sub) + 1) : SubSeq(str, k, k + Len(sub) - 1) = sub}

includes(str, sub) == Occurrences(str, sub) # {}

\* new URL(url).pathname, <<>> when new URL throws: the url needs a scheme;
\* the path runs from the first "/" after the authority to "?" or "#"
Pathname(url) ==
    LET at == Occurrences(url, <<":", "/", "/">>)
    IN  IF at = {} \/ url[1] \notin Range(Upper) \cup Range(Lower) THEN <<>>
        ELSE LET a == CHOOSE k \in at : \A h \in at : k <= h
                 rest == SubSeq(url, a + 3, Len(url))
                 cut == {k \in 1..Len(rest) : rest[k] \in {"?", "#"}}
                 upto == IF cut = {} THEN Len(rest)
                         ELSE (CHOOSE k \in cut : \A h \in cut : k <= h) - 1
                 hp == SubSeq(rest, 1, upto)
                 sl == {k \in 1..Len(hp) : hp[k] = "/"}
             IN  IF sl = {} THEN <<"/">>
                 ELSE SubSeq(hp, CHOOSE k \in sl : \A h \in sl : k <= h, Len(hp))

\* the audio extensions of the url pattern, in the order of its alternatives
UrlExts ==
    <<<<"m", "p", "3">>, <<"w", "a", "v">>, <<"m", "4", "a">>, <<"o", "g", "g">>, <<"w",
            "e", "b", "m">>>>

\* u.pathname.match(/\.(mp3|wav|m4a|ogg|webm)(?:$|\?)/i): the positions of
\* the leftmost match and the alternative matched there, <<>> when none
UrlMatch(path) ==
    LET low == toLowerCase(path)
        hit(k, n) == /\ k + Len(UrlExts[n]) <= Len(low)
                     /\ SubSeq(low, k, k + Len(UrlExts[n])) = <<".">> \o UrlExts[n]
                     /\ \/ k + Len(UrlExts[n]) = Len(low)
                        \/ /\ k + Len(UrlExts[n]) < Len(low)
                           /\ low[k + Len(UrlExts[n]) + 1] = "?"
        hits == {kn \in (1..Len(low)) \X (1..Len(UrlExts)) : hit(kn[1], kn[2])}
    IN  IF hits = {} THEN <<>>
        ELSE LET first == CHOOSE kn \in hits : \A o \in hits : kn[1] <= o[1]
             IN  UrlExts[first[2]]

guessExt(contentType, url) ==
    LET lower == toLowerCase(contentType)
        has(t) == includes(lower, t)
    IN  IF has(<<"a", "u", "d", "i", "o", "/", "m", "p", "e", "g">>) \/ has(<<"a", "u",
            "d", "i", "o", "/", "m", "p", "3">>)
        THEN <<".", "m", "p", "3">>
        ELSE IF has(<<"a", "u", "d", "i", "o", "/", "w", "a", "v">>) \/ has(<<"a", "u",
                "d", "i", "o", "/", "x", "-", "w", "a", "v">>)
        THEN <<".", "w", "a", "v">>
        ELSE IF has(<<"a", "u", "d", "i", "o", "/", "m", "p", "4">>) \/ has(<<"a", "u",
                "d", "i", "o", "/", "x", "-", "m", "4", "a">>)
        THEN <<".", "m", "4", "a">>
        ELSE IF has(<<"a", "u", "d", "i", "o", "/", "o", "g", "g">>) THEN <<".", "o", "g", "g">>
        ELSE IF has(<<"a", "u", "d", "i", "o", "/", "w", "e", "b", "m">>) THEN <<".", "w",
                "e", "b", "m">>
        ELSE IF UrlMatch(Pathname(url)) # <<>>
        THEN <<".">> \o toLowerCase(UrlMatch(Pathname(url)))
        ELSE <<".", "b", "i", "n">>

\* the decimal digits of a natural number, as `${n}` writes them
RECURSIVE ToDigits(_)
ToDigits(n) ==
    IF n < 10 THEN <<Digits[n + 1]>>
    ELSE ToDigits(n \div 10) \o <<Digits[(n % 10) + 1]>>

\* n in at least w digits, zero-padded on the left
RECURSIVE Pad(_, _)
Pad(str, w) == IF Len(str) >= w THEN str ELSE Pad(<<"0">> \o str, w)

IsDigits(str) == \A k \in 1..Len(str) : str[k] \in Range(Digits)

DigitVal(c) == (CHOOSE k \in 1..Len(Digits) : Digits[k] = c) - 1

RECURSIVE ToNumber(_)
ToNumber(str) ==
    IF str = <<>> THEN 0
    ELSE 10 * ToNumber(SubSeq(str, 1, Len(str) - 1)) + DigitVal(str[Len(str)])

\* days from 1970-01-01 to the civil date y-m-d, and back
DaysFromCivil(y, m, d) ==
    LET yy == IF m <= 2 THEN y - 1 ELSE y
        era == yy \div 400
        yoe == yy - era * 400
        doy == (153 * (IF m > 2 THEN m - 3 ELSE m + 9) + 2) \div 5 + d - 1
        doe == yoe * 365 + yoe \div 4 - yoe \div 100 + doy
    IN  era * 146097 + doe - 719468

CivilFromDays(days) ==
    LET z == days + 719468
        era == z \div 146097
        doe == z - era * 146097
        yoe == (doe - doe \div 1460 + doe \div 36524 - doe \div 146096) \div 365
        doy == doe - (365 * yoe + yoe \div 4 - yoe \div 100)
        mp == (5 * doy + 2) \div 153
        d == doy - (153 * mp + 2) \div 5 + 1
        m == IF mp < 10 THEN mp + 3 ELSE mp - 9
        y == yoe + era * 400 + (IF m <= 2 THEN 1 ELSE 0)
    IN  <<y, m, d>>

\* a time value: NaN, or t seconds since the epoch
NaN == [valid |-> FALSE, t |-> 0]

TimeValue(t) == [valid |-> TRUE, t |-> t]

\* new Date(str) for the ISO date-times YYYY-MM-DDTHH:mm:ssZ and
\* YYYY-MM-DDTHH:mm:ss+HH:mm (or -HH:mm): the time value in seconds since the
\* epoch (the strings carry no milliseconds), NaN for any other text.  As in
\* V8 a day up to 31 is taken in every month and runs into the next month.
DateParse(str) ==
    LET f(a, b) == SubSeq(str, a, b)
        shape ==
            /\ Len(str) \in {20, 25}
            /\ IsDigits(f(1, 4)) /\ str[5] = "-" /\ IsDigits(f(6, 7)) /\ str[8] = "-"
            /\ IsDigits(f(9, 10)) /\ str[11] = "T"
            /\ IsDigits(f(12, 13)) /\ str[14] = ":" /\ IsDigits(f(15, 16))
            /\ str[17] = ":" /\ IsDigits(f(18, 19))
            /\ IF Len(str) = 20 THEN str[20] = "Z"
               ELSE /\ str[20] \in {"+", "-"}
                    /\ IsDigits(f(21, 22)) /\ str[23] = ":" /\ IsDigits(f(24, 25))
    IN  IF ~shape THEN NaN
        ELSE LET y == ToNumber(f(1, 4))
                 m == ToNumber(f(6, 7))
                 d == ToNumber(f(9, 10))
                 hh == ToNumber(f(12, 13))
                 mi == ToNumber(f(15, 16))
                 ss == ToNumber(f(18, 19))
                 off == IF Len(str) = 20 THEN 0
                        ELSE (IF str[20] = "-" THEN -1 ELSE 1)
                             * (ToNumber(f(21, 22)) * 60 + ToNumber(f(24, 25)))
             IN  IF \/ m \notin 1..12 \/ d \notin 1..31
                    \/ hh > 24 \/ mi > 59 \/ ss > 59
                    \/ (hh = 24 /\ (mi > 0 \/ ss > 0))
                 THEN NaN
                 ELSE TimeValue(DaysFromCivil(y, m, d) * 86400 + hh * 3600 + mi * 60
                                + ss - off * 60)

\* Date.prototype.toISOString() of a time value other than NaN
toISOString(tv) ==
    LET ymd == CivilFromDays(tv.t \div 86400)
        sec == tv.t % 86400
        two(n) == Pad(ToDigits(n), 2)
    IN  Pad(ToDigits(ymd[1]), 4) \o <<"-">> \o two(ymd[2]) \o <<"-">> \o two(ymd[3])
            \o <<"T">> \o two(sec \div 3600) \o <<":">> \o two((sec % 3600) \div 60)
            \o <<":">> \o two(sec % 60) \o <<".", "0", "0", "0", "Z">>

\* the entry's name; thrown when toISOString throws on NaN
NameOf(it, ext) ==
    LET t == DateParse(it.created_time)
        datePart == IF it.created_time # <<>>
                    THEN slice(toISOString(t), DateLen)
                    ELSE <<"u", "n", "k", "n", "o", "w", "n", "-", "d", "a", "t", "e">>
        phone == IF it.phone # <<>>
                 THEN safeSlug(RemoveOutside(it.phone, PhoneChars))
                 ELSE <<>>
        agent == IF it.agent # <<>> THEN safeSlug(it.agent) ELSE <<>>
        base == datePart \o <<"_", "c", "a", "l", "l", "-">> \o ToDigits(it.callId)
                    \o <<"_", "r", "e", "c", "-">> \o ToDigits(it.recId)
                    \o (IF phone # <<>> THEN <<"_">> \o phone ELSE <<>>)
                    \o (IF agent # <<>> THEN <<"_">> \o agent ELSE <<>>)
    IN  IF it.created_time # <<>> /\ ~t.valid
        THEN [thrown |-> TRUE, fileName |-> <<>>]
        ELSE [thrown |-> FALSE, fileName |-> safeSlug(base) \o ext]

\* the inputs: items, content types, download urls and bodies
NamingIds == {<<1, 10>>, <<42, 7>>}

CreatedTexts ==
    {<<"2", "0", "2", "4", "-", "0", "1", "-", "0", "5", "T", "0", "0", ":", "0", "0",
            ":", "0", "0", "Z">>,
     <<"2", "0", "2", "4", "-", "0", "2", "-", "2", "9", "T", "2", "3", ":", "3", "0",
             ":", "0", "0", "-", "0", "2", ":", "0", "0">>,
     <<"n", "/", "a">>,
     <<>>}

PhoneTexts == {<<"+", "1", "2", "3">>, <<"(", "5", "5", "5", ")", " ", "0", "1", "0">>, <<>>}

AgentTexts == {<<"A", " ", "N", "a", "m", "e">>, <<" ", "_", "x", "/", "y", ".", "_", " ">>, <<>>}

ContentTypes == {<<"a", "u", "d", "i", "o", "/", "m", "p", "e", "g">>, <<"A", "u", "d",
        "i", "o", "/", "O", "G", "G", ";", " ", "q", "=", "1">>, <<>>}

DownloadUrls == {<<"h", "t", "t", "p", "s", ":", "/", "/", "h", "/", "a", ".", "W", "A",
        "V", "?", "x", "=", ".", "m", "p", "3">>, <<"h", "/", "a", ".", "m", "p", "3">>}

\* the byteLength of each chunk the body's reader delivers
Bodies == {<<1000>>, <<400, 600>>, <<1, 2>>, <<>>}

NamingItems ==
    {[callId |-> id[1], recId |-> id[2], created_time |-> c, phone |-> ph, agent |-> a] :
        id \in NamingIds, c \in CreatedTexts, ph \in PhoneTexts, a \in AgentTexts}

\* the audio response has arrived for one item
InitNaming ==
    /\ body = "absent"
    /\ items = <<>>
    /\ max = 1
    /\ maxIsNaN = FALSE
    /\ active = 0
    /\ queue = <<>>
    /\ NoPost
    /\ NoTasks
    /\ NoRetry
    /\ nin \in [item : NamingItems, contentType : ContentTypes, url : DownloadUrls,
                 chunks : Bodies]
    /\ nout = [file |-> <<>>, bytes |-> 0, read |-> 0]
    /\ npc = "fetched"
    /\ NoChat

NamingFrame == UNCHANGED <<limVars, reqVars, postVars, taskVars, retryVars, nin, chatVars>>

\* guessExt and the name: the entry is created, or the task's catch is entered
NameEntry ==
    /\ npc = "fetched"
    /\ LET r == NameOf(nin.item, guessExt(nin.contentType, nin.url))
       IN  IF r.thrown
           THEN npc' = "failed" /\ UNCHANGED nout
           ELSE npc' = "reading" /\ nout' = [nout EXCEPT !.file = r.fileName]
    /\ NamingFrame

\* the reader delivers the next chunk: total += value.byteLength
NamingRead ==
    /\ npc = "reading"
    /\ nout.read < Len(nin.chunks)
    /\ nout' = [nout EXCEPT !.read = @ + 1,
                            !.bytes = AddBytes(@, nin.chunks[nout.read + 1])]
    /\ npc' = npc
    /\ NamingFrame

\* the reader is done: the record {file: fileName, bytes: total} is pushed
NamingDone ==
    /\ npc = "reading"
    /\ nout.read = Len(nin.chunks)
    /\ npc' = "done"
    /\ UNCHANGED nout
    /\ NamingFrame

NextNaming == NameEntry \/ NamingRead \/ NamingDone

NamingSpec == InitNaming /\ [][NextNaming]_vars

RECURSIVE Sum(_)
Sum(q) == IF q = <<>> THEN 0 ELSE Head(q) + Sum(Tail(q))

\* the item, content type and body of the scenario
Scenario ==
    /\ nin.item = [callId |-> 1, recId |-> 10,
                   created_time |-> <<"2", "0", "2", "4", "-", "0", "1", "-", "0", "5",
                           "T", "0", "0", ":", "0", "0", ":", "0", "0", "Z">>,
                   phone |-> <<"+", "1", "2", "3">>, agent |-> <<"A", " ", "N", "a", "m", "e">>]
    /\ nin.contentType = <<"a", "u", "d", "i", "o", "/", "m", "p", "e", "g">>
    /\ Sum(nin.chunks) = 1000

\* C18 as stated: the scenario's entry is named
\* 2024-01-05_call-1_rec-10_123_A_Name.mp3 and its record has 1000 bytes.
C18_NamingScenario_Stated ==
    (Scenario /\ npc = "done") =>
        /\ nout.file = <<"2", "0", "2", "4", "-", "0", "1", "-", "0", "5", "_", "c", "a",
                "l", "l", "-", "1", "_", "r", "e", "c", "-", "1", "0", "_", "1", "2", "3",
                "_", "A", "_", "N", "a", "m", "e", ".", "m", "p", "3">>
        /\ nout.bytes = 1000

\* C18: the scenario's entry is named
\* 2024-01-05_call-1_rec-10_+123_A_Name.mp3 (the "+" of the phone is kept),
\* naming never throws on it, and its record has 1000 bytes.
C18_NamingScenario ==
    Scenario =>
        /\ npc # "failed"
        /\ npc \in {"reading", "done"} =>
               nout.file = <<"2", "0", "2", "4", "-", "0", "1", "-", "0", "5", "_", "c",
                       "a", "l", "l", "-", "1", "_", "r", "e", "c", "-", "1", "0", "_",
                       "+", "1", "2", "3", "_", "A", "_", "N", "a", "m", "e", ".", "m",
                       "p", "3">>
        /\ npc = "done" => nout.bytes = 1000

\* the scenario's record was pushed after a body of two chunks
C18_Witness == Scenario /\ npc = "done" /\ Len(nin.chunks) = 2 /\ nout.read = 2

\* C21: the audio fetch is issued at most once per item: an item in the
\* FETCHING stage has invoked its fetch once, and a failure of it settles the
\* item at once.
C21_AudioFetchedOnce ==
    \A i \in ItemIds : pc[i] = "audio" => (rs[i].calls <= 1 /\ rs[i].phase = "calling")

\* the record of item i's read failure is in manifest.errors
ReadFailed(m, i) ==
    \E k \in 1..Len(m.errors) : m.errors[k].item = i /\ m.errors[k].error \in ReadErrors

\* C22: a read of the body that fails settles the item with one
\* manifest.errors record and no manifest.entries record, and from then on the
\* item makes no resolution, no fetch, no read and no push: its stage, retry
\* state, counters and writer entry never change again.
C22_ReadFailureFinal ==
    /\ [][\A i \in ItemIds :
            (pc[i] = "read" /\ pc'[i] # "read") =>
                /\ pc'[i] = "settled"
                /\ \/ /\ InEntries(manifest', i)
                      /\ manifest'.errors = manifest.errors
                   \/ /\ ~InEntries(manifest', i)
                      /\ \E e \in ReadErrors :
                             manifest'.errors =
                                 Append(manifest.errors, [item |-> i, error |-> e])]_vars
    /\ [][\A i \in ItemIds :
            (pc[i] = "settled" /\ ReadFailed(manifest, i)) =>
                /\ pc'[i] = "settled" /\ rs'[i] = IdleRetry
                /\ total'[i] = total[i] /\ nread'[i] = nread[i]
                /\ ~InEntries(manifest', i)
                /\ zip'.u[EntryOf(zip, i)] = zip.u[EntryOf(zip, i)]
                /\ Cardinality({k \in 1..Len(zip'.u) : zip'.u[k].owner = i}) = 1]_vars

\* an item failed in the read loop after a chunk had been pushed to its entry,
\* and the request went on to its finalizer
C22_Witness ==
    \E i \in ItemIds :
        /\ pc[i] = "settled" /\ ReadFailed(manifest, i)
        /\ zip.u[EntryOf(zip, i)].bytes > 0
        /\ finPc = "done"

\* C23: in every state a recording entry of the writer is sealed exactly when
\* its item has a manifest.entries record; a settled item whose entry is not
\* sealed has a manifest.errors record and no manifest.entries record.
C23_SealedIffCompleted ==
    /\ \A k \in 1..Len(zip.u) :
           zip.u[k].owner # 0 => (zip.u[k].final <=> InEntries(manifest, zip.u[k].owner))
    /\ \A i \in ItemIds :
           (pc[i] = "settled" /\ EntryOf(zip, i) # 0 /\ ~zip.u[EntryOf(zip, i)].final) =>
               InErrors(manifest, i) /\ ~InEntries(manifest, i)

\* after zip.end() the writer holds a sealed entry of a completed item and an
\* unsealed one of a failed item
C23_Witness ==
    /\ zip.ended
    /\ \E k, n \in 1..Len(zip.u) :
           /\ zip.u[k].owner # 0 /\ zip.u[k].final
           /\ zip.u[n].owner # 0 /\ ~zip.u[n].final
           /\ InErrors(manifest, zip.u[n].owner)

\* C24: no entry of the writer, recording or manifest, is pushed a chunk after
\* its final chunk: each entry gets at most one chunk with the final flag and
\* none behind it.
C24_WriteOnce == \A k \in 1..Len(zip.u) : zip.u[k].late = 0

\* the archive holds a recording entry that was streamed and sealed, the
\* sealed manifest entry, and no open entry
C24_Witness ==
    /\ ManifestAdded
    /\ \A k \in 1..Len(zip.u) : zip.u[k].final
    /\ \E k \in 1..Len(zip.u) : zip.u[k].owner # 0 /\ zip.u[k].bytes > 0

\* ------------------------------------------------- concurrent streaming
\* At least two items and two slots, and a network that answers every fetch
\* and delivers every body: the executions in which all items stream.
InitInterleave ==
    /\ Init
    /\ body = "array" /\ Len(items) >= 2 /\ max >= 2
    /\ \A i \in ItemIds : items[i].created = "valid"

NextInterleave ==
    \/ POST
    \/ \E i \in ItemIds : MetaOk(i, TRUE)
    \/ \E i \in ItemIds : AudioOk(i, TRUE)
    \/ \E i \in ItemIds, len \in ChunkLens : ReadChunk(i, len)
    \/ \E i \in ItemIds : ReadDone(i)
    \/ Finalizer

InterleaveSpec == InitInterleave /\ [][NextInterleave]_vars

\* the items whose entry is added to the writer and still open, being streamed
Streaming == {i \in ItemIds : pc[i] = "read"}

\* C25: the entries of all items in the read loop are open in the writer at
\* the same time, and whatever the other entries' state, each of them can be
\* pushed its next chunk or its final chunk next (no entry waits for another
\* to be sealed); each keeps its own byte count, and when the request is
\* finalized every item is COMPLETED with the byte count of its own entry.
C25_InterleavedWrites ==
    /\ \A i \in Streaming :
           /\ EntryOf(zip, i) # 0
           /\ ~zip.u[EntryOf(zip, i)].final
           /\ zip.u[EntryOf(zip, i)].bytes = total[i]
           /\ ENABLED ReadDone(i)
           /\ nread[i] < MaxChunks =>
                  \A len \in ChunkLens : ENABLED ReadChunk(i, len)
    /\ \A n \in 1..Len(manifest.entries) :
           zip.u[EntryOf(zip, manifest.entries[n].item)].bytes = manifest.entries[n].bytes
    /\ finPc = "done" => \A i \in ItemIds : ItemState(i) = "COMPLETED"

\* two entries are open, the first added has been pushed two chunks and the
\* second one chunk between them or after, and their byte counts differ
C25_Witness ==
    \E i, j \in Streaming :
        /\ EntryOf(zip, i) < EntryOf(zip, j)
        /\ nread[i] = 2 /\ nread[j] = 1
        /\ total[i] # total[j]

\* C26: with max >= 1, active is the number of tasks started and not settled,
\* it lies in 0..max and equals max whenever a task waits in the queue; the
\* queue holds the waiting tasks once each, and no task is started twice.
C26_LimiterBookkeeping ==
    /\ active = Cardinality({t \in TaskIds : task[t] = "running"})
    /\ active >= 0 /\ active <= max
    /\ queue # <<>> => active = max
    /\ Range(queue) = {t \in TaskIds : task[t] = "queued"}
    /\ Cardinality(Range(queue)) = Len(queue)
    /\ Cardinality(Range(startLog)) = Len(startLog)
    /\ Range(startLog) = {t \in TaskIds : task[t] \in {"running", "fulfilled", "rejected"}}

\* two slots, both busy while a task waits, one of them taken over from a
\* task that rejected
C26_Witness ==
    /\ max = 2 /\ active = 2 /\ queue # <<>>
    /\ \E t \in TaskIds : task[t] = "rejected"
    /\ \E t \in Range(queueLog) : task[t] = "running"

\* ------------------------------------------------------ one slot
\* The route with ZIP_CONCURRENCY = 1: the items are processed one at a time.
InitSerial == Init /\ max = 1

SerialSpec == InitSerial /\ [][Next]_vars

\* the step settles item i with the error its retried fetch threw
RetryExhausted(i) ==
    /\ pc[i] \in {"meta", "audio"} /\ pc'[i] = "settled"
    /\ \E e \in MetaErrors \cup AudioErrors :
           manifest'.errors = Append(manifest.errors, [item |-> i, error |-> e])

\* C27: retry waits after every failed attempt, the last included: while it
\* waits, the waits completed are one less than the attempts made, and while
\* an attempt runs they equal the failed attempts; an item whose attempts all
\* failed is settled only by the step that ends the wait after the third
\* attempt, and until then it holds its slot (with one slot the next item
\* stays queued).
C27_BackoffAfterLastAttempt ==
    /\ [](\A i \in ItemIds :
            /\ pc[i] \in {"meta", "audio"} =>
                   /\ rs[i].phase \in {"calling", "backoff"}
                   /\ rs[i].i = rs[i].calls - 1
                   /\ rs[i].calls <= DefaultTries
                   /\ active = 1
                   /\ \A j \in ItemIds \ {i} : pc[j] \in {"queued", "settled"}
            /\ pc[i] \notin {"meta", "audio"} => rs[i] = IdleRetry)
    /\ [][\A i \in ItemIds :
            RetryExhausted(i) =>
                /\ rs[i].phase = "backoff"
                /\ rs[i].calls = DefaultTries
                /\ rs[i].i = DefaultTries - 1
                /\ rs[i].lastErr = manifest'.errors[Len(manifest'.errors)].error]_vars

\* the item's third resolution attempt has failed and it is in the wait after
\* it, holding the only slot while another item is queued
C27_Witness ==
    \E i \in ItemIds :
        /\ pc[i] = "meta" /\ rs[i].phase = "backoff" /\ rs[i].calls = DefaultTries
        /\ queue # <<>>


\* ------------------------------------------------------ any concurrency
\* The route when Number(process.env.ZIP_CONCURRENCY || 8) may also be zero,
\* negative or NaN.
InitAnyConc ==
    /\ Arrived
    /\ \/ max \in (0 - MaxConc)..1 /\ maxIsNaN = FALSE
       \/ max = 0 /\ maxIsNaN = TRUE

AnyConcSpec == InitAnyConc /\ [][Next]_vars

\* createLimiter's `active < max` is false for every active >= 0
NonPositive == maxIsNaN \/ max <= 0

\* C28: with a concurrency of 0, a negative number or NaN, a request with a
\* non-empty items array is answered 200, and from then on every task is
\* queued in order and none is started, the manifest has no record, the writer
\* has no entry, the finalizer is still waiting, the stream is open, and no
\* step of the route is possible any more.
C28_NonPositiveNeverCompletes ==
    (NonPositive /\ body = "array" /\ items # <<>> /\ response # 0) =>
        /\ response = 200
        /\ \A i \in ItemIds : pc[i] = "queued" /\ rs[i] = IdleRetry
        /\ active = 0
        /\ queue = [i \in ItemIds |-> i]
        /\ manifest.entries = <<>> /\ manifest.errors = <<>>
        /\ zip.u = <<>> /\ ~zip.ended /\ ~zip.failed
        /\ finPc = "waiting"
        /\ ctrl = "open"
        /\ ~ENABLED Next

\* a request with two items was accepted under a NaN concurrency
C28_Witness ==
    /\ maxIsNaN /\ response = 200 /\ Len(items) = MaxItems /\ Len(queue) = MaxItems


\* the records of item i in manifest.errors
ErrorsOf(m, i) == {k \in 1..Len(m.errors) : m.errors[k].item = i}

\* C29: an item whose non-empty created_time is not a valid date never gets a
\* writer entry (under any name), never reaches the STREAMING stage and never
\* has a manifest.entries record; once settled it is FAILED with exactly one
\* manifest.errors record, and the "Invalid time value" record is appended
\* only by the step in which the item's audio fetch has fulfilled, a step
\* that leaves the writer unchanged; an item with a valid date never gets
\* that record.
C29_InvalidDateFails ==
    /\ [](\A i \in ItemIds :
            /\ items[i].created = "invalid" =>
                   /\ EntryOf(zip, i) = 0
                   /\ pc[i] # "read"
                   /\ ~InEntries(manifest, i)
                   /\ pc[i] = "settled" =>
                          (ItemState(i) = "FAILED" /\ Cardinality(ErrorsOf(manifest, i)) = 1)
            /\ items[i].created = "valid" =>
                   \A k \in ErrorsOf(manifest, i) : manifest.errors[k].error # DateError)
    /\ [][\A i \in ItemIds :
            (/\ Len(manifest'.errors) = Len(manifest.errors) + 1
             /\ manifest'.errors[Len(manifest'.errors)] = [item |-> i, error |-> DateError])
            => /\ pc[i] = "audio" /\ rs[i].phase = "calling"
               /\ items[i].created = "invalid"
               /\ pc'[i] = "settled"
               /\ zip' = zip]_vars

\* an item with an unparseable date failed on its name after its audio fetch
\* fulfilled, while the other item of the request got its entry
C29_Witness ==
    \E i \in ItemIds :
        /\ pc[i] = "settled"
        /\ \E k \in ErrorsOf(manifest, i) : manifest.errors[k].error = DateError
        /\ EntryOf(zip, i) = 0
        /\ \E j \in ItemIds \ {i} : EntryOf(zip, j) # 0


\* ------------------------------------------------- ChatExtraction.submit
\* Step 5 of submit: the messages of every deduplicated conversation are
\* fetched by a pool of `limit` chains of runNext calls.
ChatLimit == 5

Min(a, b) == IF a < b THEN a ELSE b

\* const cid = convIds[pointer++]
Take_NoAdvance(ids, p) == [cid |-> ids[p + 1], pointer |-> p]

Take(ids, p) == [cid |-> ids[p + 1], pointer |-> p + 1]

\* runNext() called in chain w, up to its first await: it returns at once when
\* no id is left, else it takes the next id and issues the fetch
runNext(st, w) ==
    IF st.pointer >= Len(convIds)
    THEN [st EXCEPT !.worker[w] = [pc |-> "returned", cid |-> 0]]
    ELSE LET t == Take(convIds, st.pointer)
         IN  [pointer |-> t.pointer,
              worker |-> [st.worker EXCEPT ![w] = [pc |-> "fetch", cid |-> t.cid]],
              fetches |-> [st.fetches EXCEPT ![t.cid] = @ + 1]]

\* Math.min(limit, convIds.length)
Starters(n) == Min(ChatLimit, n)

\* Array.from({length}, () => runNext()): the starters are created in turn
RECURSIVE StartFrom(_, _, _)
StartFrom(st, w, n) == IF w > n THEN st ELSE StartFrom(runNext(st, w), w + 1, n)

\* the CSV was parsed and its rows deduplicated by conversation id
InitChat ==
    /\ body = "absent"
    /\ items = <<>>
    /\ max = 1
    /\ maxIsNaN = FALSE
    /\ active = 0
    /\ queue = <<>>
    /\ NoPost
    /\ NoTasks
    /\ NoRetry
    /\ NoNaming
    /\ convIds \in {[k \in 1..n |-> k] : n \in 0..MaxConv}
    /\ pointer = 0
    /\ accMap = [c \in 1..Len(convIds) |-> "none"]
    /\ worker = <<>>
    /\ stage = "parsing"
    /\ fetches = [c \in 1..Len(convIds) |-> 0]

ChatFrame == UNCHANGED <<limVars, reqVars, postVars, taskVars, retryVars, nameVars, convIds>>

\* setStage("fetching"), the starters are created and Promise.all is awaited
ChatStart ==
    /\ stage = "parsing"
    /\ stage' = "fetching"
    /\ LET n == Starters(Len(convIds))
           st == StartFrom([pointer |-> pointer,
                            worker |-> [w \in 1..n |-> [pc |-> "new", cid |-> 0]],
                            fetches |-> fetches], 1, n)
       IN  /\ pointer' = st.pointer
           /\ worker' = st.worker
           /\ fetches' = st.fetches
    /\ UNCHANGED accMap
    /\ ChatFrame

\* the finally block of chain w: setTable, and the chain's next runNext()
Finally(w) ==
    LET st == runNext([pointer |-> pointer, worker |-> worker, fetches |-> fetches], w)
    IN  /\ pointer' = st.pointer
        /\ worker' = st.worker
        /\ fetches' = st.fetches

\* the fetch of chain w settles: a response that is ok (r.json() is awaited),
\* a response that is not, or a rejection
FetchSettles(w, out) ==
    /\ stage = "fetching"
    /\ w \in DOMAIN worker
    /\ worker[w].pc = "fetch"
    /\ IF out = "ok"
       THEN /\ worker' = [worker EXCEPT ![w].pc = "json"]
            /\ UNCHANGED <<pointer, accMap, fetches>>
       ELSE /\ accMap' = [accMap EXCEPT ![worker[w].cid] = "error"]
            /\ Finally(w)
    /\ UNCHANGED stage
    /\ ChatFrame

\* r.json() of chain w settles: the row is built from the messages, or the
\* rejection (or an exception while building the row) is caught
JsonSettles(w, ok) ==
    /\ stage = "fetching"
    /\ w \in DOMAIN worker
    /\ worker[w].pc = "json"
    /\ accMap' = [accMap EXCEPT ![worker[w].cid] = IF ok THEN "row" ELSE "error"]
    /\ Finally(w)
    /\ UNCHANGED stage
    /\ ChatFrame

\* Promise.all(starters) has fulfilled: setStage("done")
ChatDone ==
    /\ stage = "fetching"
    /\ \A w \in DOMAIN worker : worker[w].pc = "returned"
    /\ stage' = "done"
    /\ UNCHANGED <<pointer, accMap, worker, fetches>>
    /\ ChatFrame

NextChat ==
    \/ ChatStart
    \/ \E w \in 1..ChatLimit, out \in {"ok", "status", "throws"} : FetchSettles(w, out)
    \/ \E w \in 1..ChatLimit, ok \in BOOLEAN : JsonSettles(w, ok)
    \/ ChatDone

ChatSpec == InitChat /\ [][NextChat]_vars

\* the chains whose message fetch (or the read of its body) is under way
InFlight == {w \in DOMAIN worker : worker[w].pc \in {"fetch", "json"}}

\* C30: every id below the pointer has been taken by one chain and fetched
\* once, and either has its row or is still held by exactly one chain; no id
\* at or above the pointer was fetched; at most 5 fetches are in flight; and
\* in stage "done" every id has a row (of messages or of an error) and was
\* fetched once.
C30_ChatWorkerPool ==
    /\ pointer \in 0..Len(convIds)
    /\ \A c \in 1..Len(convIds) :
           /\ fetches[c] = (IF c <= pointer THEN 1 ELSE 0)
           /\ LET holders == {w \in InFlight : worker[w].cid = convIds[c]}
              IN  IF c <= pointer /\ accMap[convIds[c]] = "none"
                  THEN Cardinality(holders) = 1
                  ELSE holders = {}
           /\ c > pointer => accMap[convIds[c]] = "none"
    /\ Cardinality(InFlight) <= ChatLimit
    /\ stage = "done" =>
           /\ InFlight = {}
           /\ \A c \in 1..Len(convIds) : accMap[convIds[c]] # "none" /\ fetches[c] = 1

\* the extraction of more ids than the pool has chains is done, with rows of
\* messages and rows of errors
C30_Witness ==
    /\ stage = "done"
    /\ Len(convIds) > ChatLimit
    /\ \E c \in 1..Len(convIds) : accMap[c] = "row"
    /\ \E c \in 1..Len(convIds) : accMap[c] = "error"

====
